---- MODULE Spec2Model ----
(***************************************************************************)
(* sateko: tokenizer (token.rs), parser (ast.rs), tree interpreter and     *)
(* LLVM lowering (exec.rs), driver (main.rs).                              *)
(***************************************************************************)
EXTENDS Integers, Sequences, FiniteSets, TLC

(* ------------------------------ bounds --------------------------------- *)
\* longest source text the driver is given
MaxSrcLen == 4

\* characters of the source text: the eight instruction characters, one
\* comment character, and the two characters str::lines treats specially
NL == "\n"
CR == "\r"
Alphabet == {"[", "]", ">", "<", "+", "-", ",", ".", " ", NL, CR}

RECURSIVE StringsUpTo(_, _)
StringsUpTo(A, n) ==
    IF n = 0 THEN {<<>>}
    ELSE LET S == StringsUpTo(A, n - 1)
         IN  S \cup {Append(s, c) : s \in {t \in S : Len(t) = n - 1}, c \in A}

Sources == StringsUpTo(Alphabet, MaxSrcLen)

(* ------------------------------ token.rs ------------------------------- *)
InputPosition(l, p) == [line |-> l, pos |-> p]

\* impl From<char> for TokenKind
TokenKindFrom(c) ==
    CASE c = "[" -> "StartLoop"
      [] c = "]" -> "EndLoop"
      [] c = ">" -> "IncTape"
      [] c = "<" -> "DecTape"
      [] c = "+" -> "IncVal"
      [] c = "-" -> "DecVal"
      [] c = "," -> "Read"
      [] c = "." -> "Write"
      [] OTHER   -> "Comment"

Token(k, p) == [kind |-> k, pos |-> p]

\* index of the first NL of s, 0 when there is none
FirstNL(s) ==
    IF \E i \in 1..Len(s) : s[i] = NL
    THEN CHOOSE i \in 1..Len(s) : s[i] = NL /\ \A j \in 1..(i - 1) : s[j] # NL
    ELSE 0

\* str::split_inclusive('\n'): the pieces of s, each but possibly the last
\* ending in NL; no empty last piece
RECURSIVE SplitInclusive(_)
SplitInclusive(s) ==
    IF s = <<>> THEN <<>>
    ELSE LET i == FirstNL(s)
         IN  IF i = 0 THEN <<s>>
             ELSE <<SubSeq(s, 1, i)>> \o SplitInclusive(SubSeq(s, i + 1, Len(s)))

DropLast(s) == SubSeq(s, 1, Len(s) - 1)
EndsWith(s, c) == Len(s) > 0 /\ s[Len(s)] = c

\* one line of str::lines: the NL and a CR directly before it are not part
\* of the line.  stripBareCR: standard libraries before 1.77 also strip a
\* CR that ends a last line without NL.
StripLine(piece, stripBareCR) ==
    IF EndsWith(piece, NL)
    THEN LET l == DropLast(piece) IN IF EndsWith(l, CR) THEN DropLast(l) ELSE l
    ELSE IF stripBareCR /\ EndsWith(piece, CR) THEN DropLast(piece) ELSE piece

\* str::lines
Lines(s, stripBareCR) ==
    LET ps == SplitInclusive(s)
    IN  [i \in 1..Len(ps) |-> StripLine(ps[i], stripBareCR)]

\* the inner loop of tokenize: the tokens of line number `line`
TokenizeLine_ZeroBased(l, line) ==
    [k \in 1..Len(l) |-> Token(TokenKindFrom(l[k]), InputPosition(line, k - 1))]

TokenizeLine(l, line) ==
    [k \in 1..Len(l) |-> Token(TokenKindFrom(l[k]), InputPosition(line, k))]

\* the outer loop of tokenize, from line number `line` on
RECURSIVE TokenizeLines(_, _)
TokenizeLines(ls, line) ==
    IF ls = <<>> THEN <<>>
    ELSE TokenizeLine(Head(ls), line + 1) \o TokenizeLines(Tail(ls), line + 1)

\* a tokenizer that emits a token for the line terminator too
tokenize_KeepNL(s, stripBareCR) ==
    [k \in 1..Len(s) |-> Token(TokenKindFrom(s[k]), InputPosition(1, k))]

\* pub fn tokenize(s: &str) -> Vec<Token>
tokenize(s, stripBareCR) == TokenizeLines(Lines(s, stripBareCR), 0)

(* ------------------------------- ast.rs -------------------------------- *)
None == [some |-> FALSE, v |-> <<>>]
Some(x) == [some |-> TRUE, v |-> x]

ASTNode(k, p, o) == [kind |-> k, pos |-> p, ops |-> o]
SyntaxError(p, k) == [pos |-> p, kind |-> k]

NoNode == ASTNode("none", InputPosition(0, 0), None)
NoError == SyntaxError(InputPosition(0, 0), "none")

ScalarKinds == {"IncTape", "DecTape", "IncVal", "DecVal", "Read", "Write"}

try_parse_scalar_Swapped(t) ==
    IF t.kind \in ScalarKinds
    THEN Some(ASTNode(IF t.kind = "IncVal" THEN "DecVal" ELSE t.kind, t.pos, None))
    ELSE None

\* fn try_parse_scalar(t: &Token) -> Option<ASTNode>
try_parse_scalar(t) ==
    IF t.kind \in ScalarKinds THEN Some(ASTNode(t.kind, t.pos, None)) ELSE None

\* the result of parse_loop together with the tokens it left in ts
LoopResult(ok, node, err, rest) == [ok |-> ok, node |-> node, err |-> err, rest |-> rest]

\* a parse_loop that reports its own opening bracket even when a nested
\* loop failed
RECURSIVE parse_loop_Outermost(_, _, _)
parse_loop_Outermost(ts, start_pos, ops) ==
    IF ts = <<>>
    THEN LoopResult(FALSE, NoNode, SyntaxError(start_pos, "UnclosedLoop"), <<>>)
    ELSE LET t == Head(ts)
             rest == Tail(ts)
             sc == try_parse_scalar(t)
         IN  IF sc.some THEN parse_loop_Outermost(rest, start_pos, Append(ops, sc.v))
             ELSE IF t.kind = "StartLoop"
             THEN LET r == parse_loop_Outermost(rest, t.pos, <<>>)
                  IN  IF r.ok
                      THEN parse_loop_Outermost(r.rest, start_pos, Append(ops, r.node))
                      ELSE LoopResult(FALSE, NoNode,
                                      SyntaxError(start_pos, "UnclosedLoop"), <<>>)
             ELSE IF t.kind = "EndLoop"
             THEN LoopResult(TRUE, ASTNode("Loop", start_pos, Some(ops)), NoError, rest)
             ELSE parse_loop_Outermost(rest, start_pos, ops)

\* fn parse_loop, from the state where `ops` have been collected and `ts`
\* (next token first) is still to be popped
RECURSIVE parse_loop_from(_, _, _)
parse_loop_from(ts, start_pos, ops) ==
    IF ts = <<>>
    THEN LoopResult(FALSE, NoNode, SyntaxError(start_pos, "UnclosedLoop"), <<>>)
    ELSE LET t == Head(ts)
             rest == Tail(ts)
             sc == try_parse_scalar(t)
         IN  IF sc.some THEN parse_loop_from(rest, start_pos, Append(ops, sc.v))
             ELSE IF t.kind = "StartLoop"
             THEN LET r == parse_loop_from(rest, t.pos, <<>>)
                  IN  IF r.ok
                      THEN parse_loop_from(r.rest, start_pos, Append(ops, r.node))
                      ELSE r
             ELSE IF t.kind = "EndLoop"
             THEN LoopResult(TRUE, ASTNode("Loop", start_pos, Some(ops)), NoError, rest)
             ELSE parse_loop_from(rest, start_pos, ops)

\* fn parse_loop(ts: &mut Vec<Token>, start_pos: &InputPosition)
parse_loop(ts, start_pos) == parse_loop_from(ts, start_pos, <<>>)

\* Result<AST, SyntaxError>
ParseResult(ok, ast, err) == [ok |-> ok, ast |-> ast, err |-> err]

\* the while loop of AST::from_tokens
RECURSIVE from_tokens_from(_, _)
from_tokens_from(ts, ops) ==
    IF ts = <<>> THEN ParseResult(TRUE, ops, NoError)
    ELSE LET t == Head(ts)
             rest == Tail(ts)
             sc == try_parse_scalar(t)
         IN  IF sc.some THEN from_tokens_from(rest, Append(ops, sc.v))
             ELSE IF t.kind = "StartLoop"
             THEN LET r == parse_loop(rest, t.pos)
                  IN  IF r.ok THEN from_tokens_from(r.rest, Append(ops, r.node))
                      ELSE ParseResult(FALSE, <<>>, r.err)
             ELSE IF t.kind = "EndLoop"
             THEN ParseResult(FALSE, <<>>, SyntaxError(t.pos, "UnopenedLoop"))
             ELSE from_tokens_from(rest, ops)

\* a from_tokens that skips a closing bracket met outside every loop
RECURSIVE from_tokens_SkipEnd_from(_, _)
from_tokens_SkipEnd_from(ts, ops) ==
    IF ts = <<>> THEN ParseResult(TRUE, ops, NoError)
    ELSE LET t == Head(ts)
             rest == Tail(ts)
             sc == try_parse_scalar(t)
         IN  IF sc.some THEN from_tokens_SkipEnd_from(rest, Append(ops, sc.v))
             ELSE IF t.kind = "StartLoop"
             THEN LET r == parse_loop(rest, t.pos)
                  IN  IF r.ok THEN from_tokens_SkipEnd_from(r.rest, Append(ops, r.node))
                      ELSE ParseResult(FALSE, <<>>, r.err)
             ELSE from_tokens_SkipEnd_from(rest, ops)

from_tokens_SkipEnd(ts) == from_tokens_SkipEnd_from(ts, <<>>)

\* a from_tokens that takes the end of the input for the end of every loop
\* still open
from_tokens_Lenient(ts) ==
    LET r == from_tokens_from(ts, <<>>)
    IN  IF ~r.ok /\ r.err.kind = "UnclosedLoop" THEN ParseResult(TRUE, <<>>, NoError) ELSE r

\* pub fn from_tokens(tokens: &Vec<Token>) -> Result<AST, SyntaxError>
from_tokens(ts) == from_tokens_from(ts, <<>>)

\* impl Error for SyntaxError: description
SyntaxDescription(e) ==
    CASE e.kind = "UnopenedLoop" -> "Unopened loop"
      [] e.kind = "UnclosedLoop" -> "Unclosed loop"

\* impl fmt::Display for SyntaxError
SyntaxDisplay(e) == <<SyntaxDescription(e), " (", e.pos.line, ":", e.pos.pos, ")">>

(* ------------------------- exec.rs: IrBuilder -------------------------- *)
\* operands of an instruction: a literal or the value another instruction made
Const(n) == [t |-> "const", v |-> n]
Val(id) == [t |-> "val", v |-> id]
NoOperand == [t |-> "none", v |-> 0]

\* one LLVM instruction: dst is the number of the value it defines (0: none),
\* w the bit width of its integer result or literal
Instr(op, dst, a, b, w) == [op |-> op, dst |-> dst, a |-> a, b |-> b, w |-> w]

BasicBlock(name, instrs) == [name |-> name, instrs |-> instrs]

Terminators == {"ret", "br", "condbr"}

\* Builder::build_*: append at the builder's position
Emit(ir, ins) ==
    [ir EXCEPT !.blocks[ir.cur].instrs = Append(@, ins),
               !.nvals = IF ins.dst = 0 THEN @ ELSE ins.dst]

\* IrBuilder::create
create(tape_len) ==
    LET tape_ptr == 1
        active_cell_ptr == 2
        entry == BasicBlock("entry",
                   << Instr("array_alloca", tape_ptr, Const(tape_len), NoOperand, 8),
                      Instr("alloca", active_cell_ptr, NoOperand, NoOperand, 32),
                      Instr("store", 0, Val(active_cell_ptr), Const(0), 32) >>)
    IN  [ name |-> "sateko",
          functions |-> {"putchar", "main"},
          blocks |-> <<entry>>,
          cur |-> 1,
          nvals |-> 2,
          tape_ptr |-> tape_ptr,
          active_cell_ptr |-> active_cell_ptr,
          tape_len |-> tape_len ]

\* IrBuilder::exec_loop: its body is a TODO comment
ir_exec_loop(ir, op) == ir

\* IrBuilder::inc_tape
ir_inc_tape(ir, op) ==
    LET v == ir.nvals + 1
        a == Emit(ir, Instr("load", v, Val(ir.active_cell_ptr), NoOperand, 32))
        b == Emit(a, Instr("add", v + 1, Const(1), Val(v), 32))
    IN  Emit(b, Instr("store", 0, Val(ir.active_cell_ptr), Val(v + 1), 32))

\* IrBuilder::dec_tape
ir_dec_tape(ir, op) ==
    LET v == ir.nvals + 1
        a == Emit(ir, Instr("load", v, Val(ir.active_cell_ptr), NoOperand, 32))
        b == Emit(a, Instr("sub", v + 1, Const(1), Val(v), 32))
    IN  Emit(b, Instr("store", 0, Val(ir.active_cell_ptr), Val(v + 1), 32))

\* inc_val with the addition built on i32_type instead of i8_type
ir_inc_val_Wide(ir, op) ==
    LET v == ir.nvals + 1
        a == Emit(ir, Instr("load", v, Val(ir.active_cell_ptr), NoOperand, 32))
        b == Emit(a, Instr("gep", v + 1, Val(ir.tape_ptr), Val(v), 8))
        c == Emit(b, Instr("load", v + 2, Val(v + 1), NoOperand, 8))
        d == Emit(c, Instr("add", v + 3, Const(1), Val(v + 2), 32))
    IN  Emit(d, Instr("store", 0, Val(v + 1), Val(v + 3), 8))

\* IrBuilder::inc_val
ir_inc_val(ir, op) ==
    LET v == ir.nvals + 1
        a == Emit(ir, Instr("load", v, Val(ir.active_cell_ptr), NoOperand, 32))
        b == Emit(a, Instr("gep", v + 1, Val(ir.tape_ptr), Val(v), 8))
        c == Emit(b, Instr("load", v + 2, Val(v + 1), NoOperand, 8))
        d == Emit(c, Instr("add", v + 3, Const(1), Val(v + 2), 8))
    IN  Emit(d, Instr("store", 0, Val(v + 1), Val(v + 3), 8))

\* IrBuilder::dec_val
ir_dec_val(ir, op) ==
    LET v == ir.nvals + 1
        a == Emit(ir, Instr("load", v, Val(ir.active_cell_ptr), NoOperand, 32))
        b == Emit(a, Instr("gep", v + 1, Val(ir.tape_ptr), Val(v), 8))
        c == Emit(b, Instr("load", v + 2, Val(v + 1), NoOperand, 8))
        d == Emit(c, Instr("sub", v + 3, Const(1), Val(v + 2), 8))
    IN  Emit(d, Instr("store", 0, Val(v + 1), Val(v + 3), 8))

\* IrBuilder::read: its body is commented out
ir_read(ir, op) == ir

\* IrBuilder::write: its body is commented out
ir_write(ir, op) == ir

\* IrBuilder::exec_op
ir_exec_op(ir, op) ==
    CASE op.kind = "Loop"    -> ir_exec_loop(ir, op)
      [] op.kind = "IncTape" -> ir_inc_tape(ir, op)
      [] op.kind = "DecTape" -> ir_dec_tape(ir, op)
      [] op.kind = "IncVal"  -> ir_inc_val(ir, op)
      [] op.kind = "DecVal"  -> ir_dec_val(ir, op)
      [] op.kind = "Read"    -> ir_read(ir, op)
      [] op.kind = "Write"   -> ir_write(ir, op)

\* the for loop of IrBuilder::build_from_ast
RECURSIVE ir_exec_ops(_, _)
ir_exec_ops(ir, ops) ==
    IF ops = <<>> THEN ir ELSE ir_exec_ops(ir_exec_op(ir, Head(ops)), Tail(ops))

\* build_from_ast without its closing build_return
build_from_ast_NoReturn(ir, ast) == ir_exec_ops(ir, ast)

\* IrBuilder::build_from_ast
build_from_ast(ir, ast) ==
    Emit(ir_exec_ops(ir, ast), Instr("ret", 0, Const(0), NoOperand, 32))

NoIr == [ name |-> "", functions |-> {}, blocks |-> <<>>, cur |-> 0, nvals |-> 0,
          tape_ptr |-> 0, active_cell_ptr |-> 0, tape_len |-> 0 ]

(* --------------------- exec.rs: the tree interpreter ------------------- *)
\* more bounds: tape lengths, loop condition checks that are followed, bytes
\* waiting on standard input, frames of formatting recursion the stack holds,
\* runs of its program a test makes on one tape
MaxTapeLen == 2
MaxChecks == 2
MaxProgLen == 2
MaxFmtDepth == 3
MaxRuns == 256

\* struct Tape / Tape::with_size
Tape(cells, pos) == [cells |-> cells, pos |-> pos]
with_size(size) == Tape([i \in 1..size |-> 0], 0)

\* the cell under the pointer (cells are indexed from 0 in the source)
Cell(t) == t.cells[t.pos + 1]
SetCell(t, v) == [t EXCEPT !.cells[t.pos + 1] = v]

\* struct RuntimeError, enum ErrorKind (OffTapeEnd carries the tape length)
RuntimeError(tag, n, pos) == [kind |-> [tag |-> tag, n |-> n], pos |-> pos]
NoRuntimeError == RuntimeError("none", 0, InputPosition(0, 0))

\* type Result = result::Result<(), RuntimeError>, and "still running"
Running == [state |-> "running", err |-> NoRuntimeError]
Ok == [state |-> "ok", err |-> NoRuntimeError]
Err(e) == [state |-> "err", err |-> e]

\* impl Error for RuntimeError: description
RuntimeDescription(e) ==
    CASE e.kind.tag = "OffTapeStart" -> "Tried to move past tape beginning"
      [] e.kind.tag = "OffTapeEnd"   -> "Tried to move past end of tape"
      [] e.kind.tag = "IOError"      -> "I/O failure"

(* ----------------- reference execution of the lowered IR --------------- *)
I32Max == 2147483647
I32Min == (-I32Max) - 1

\* two's complement 32-bit addition and subtraction
Add32(x, y) ==
    IF y >= 0
    THEN IF x > I32Max - y THEN I32Min + (y - (I32Max - x) - 1) ELSE x + y
    ELSE IF x < I32Min - y THEN I32Max - ((I32Min - y) - x - 1) ELSE x + y
Sub32(x, y) ==
    IF y = I32Min THEN Add32(Add32(x, I32Max), 1) ELSE Add32(x, -y)

\* integer arithmetic at width w: i8 values are 0..255, i32 values signed
IntAdd(x, y, w) == IF w = 8 THEN (x + y) % 256 ELSE Add32(x, y)
IntSub(x, y, w) == IF w = 8 THEN (x - y) % 256 ELSE Sub32(x, y)

\* run-time values: integers, a pointer into the tape array, the pointer to
\* the active_cell local
IntV(n) == [k |-> "int", n |-> n]
TapePtr(off) == [k |-> "tapeptr", n |-> off]
ActivePtr == [k |-> "activeptr", n |-> 0]
Undef == [k |-> "undef", n |-> 0]

\* a memory cell that was allocated and never stored to
Uninit == 0 - 1

\* the machine before main's entry block runs: nothing is allocated yet.
\* mem0 keeps, for each cell of the tape array, what a load found in it
\* while it was uninitialised (Uninit: no such load).
Machine(ir) ==
    [ status |-> "ready", block |-> 1,
      env |-> [i \in 1..ir.nvals |-> Undef],
      tape |-> <<>>, active |-> 0, out |-> <<>>, mem0 |-> <<>> ]

\* what loads find in the uninitialised memory of the two allocas
Fresh(garbage, active) == [tape |-> garbage, active |-> active]

\* the tape array, had its uninitialised cells held zeros
ZeroFilled(m) == [i \in 1..Len(m.tape) |-> IF m.tape[i] = Uninit THEN 0 ELSE m.tape[i]]

Operand(m, o) == IF o.t = "const" THEN IntV(o.v) ELSE m.env[o.v]

InTape(m, p) == p.k = "tapeptr" /\ p.n >= 0 /\ p.n < Len(m.tape)

\* one instruction; an alloca does not initialise its memory, and an access
\* outside the tape array is undefined behaviour
RunInstr(m, ins, fresh) ==
    LET a == Operand(m, ins.a)
        b == Operand(m, ins.b)
    IN  CASE ins.op = "array_alloca" ->
                [m EXCEPT !.env[ins.dst] = TapePtr(0),
                          !.tape = [i \in 1..a.n |-> Uninit],
                          !.mem0 = [i \in 1..a.n |-> Uninit]]
          [] ins.op = "alloca" ->
                [m EXCEPT !.env[ins.dst] = ActivePtr, !.active = Uninit]
          [] ins.op = "load" ->
                IF a.k = "activeptr"
                THEN [m EXCEPT !.env[ins.dst] =
                         IntV(IF m.active = Uninit THEN fresh.active ELSE m.active)]
                ELSE IF InTape(m, a)
                THEN IF m.tape[a.n + 1] = Uninit
                     THEN [m EXCEPT !.env[ins.dst] = IntV(fresh.tape[a.n + 1]),
                                    !.mem0[a.n + 1] = fresh.tape[a.n + 1]]
                     ELSE [m EXCEPT !.env[ins.dst] = IntV(m.tape[a.n + 1])]
                ELSE [m EXCEPT !.status = "ub"]
          [] ins.op = "store" ->
                IF a.k = "activeptr" THEN [m EXCEPT !.active = b.n]
                ELSE IF InTape(m, a) THEN [m EXCEPT !.tape[a.n + 1] = b.n]
                ELSE [m EXCEPT !.status = "ub"]
          [] ins.op = "gep" -> [m EXCEPT !.env[ins.dst] = TapePtr(a.n + b.n)]
          [] ins.op = "add" -> [m EXCEPT !.env[ins.dst] = IntV(IntAdd(a.n, b.n, ins.w))]
          [] ins.op = "sub" -> [m EXCEPT !.env[ins.dst] = IntV(IntSub(a.n, b.n, ins.w))]
          [] ins.op = "ret" -> [m EXCEPT !.status = "done"]

\* the instructions of one basic block, up to its terminator
RECURSIVE RunInstrs(_, _, _)
RunInstrs(m, instrs, fresh) ==
    IF m.status # "ready" THEN m
    ELSE IF instrs = <<>> THEN [m EXCEPT !.status = "ub"]
    ELSE RunInstrs(RunInstr(m, Head(instrs), fresh), Tail(instrs), fresh)

NoMachine == [ status |-> "none", block |-> 0, env |-> <<>>, tape |-> <<>>,
               active |-> 0, out |-> <<>>, mem0 |-> <<>> ]

(* ------------------------------- state --------------------------------- *)
VARIABLES
    pc,        \* where main (or the test harness) stands
    src,       \* the source text
    tape_len,  \* the requested tape length
    tokens,    \* tokenize's result
    parsed,    \* AST::from_tokens' result
    ir,        \* the IrBuilder and the module it builds
    console,   \* lines main printed
    outfile,   \* what print_to_file wrote, <<>> before
    tape,      \* the interpreter's Tape
    tape0,     \* the Tape as it was prepared, before the run
    ip,        \* index of the interpreter's next top-level instruction
    result,    \* the interpreter's Result
    checks,    \* loop condition checks that found the cell nonzero
    verb,      \* verbosity
    stdin,     \* bytes waiting on standard input
    stdout,    \* bytes the interpreter wrote
    stderr,    \* trace lines
    irm,       \* the machine running the lowered module
    runs,      \* runs of the program a test has started on its tape
    twin,      \* the comparison run: which run this is, the input it started
               \* with, what the first run was seen to do
    iolog,     \* what the I/O calls of the first run returned, in order
    rendered   \* Display of the interpreter's RuntimeError

pipeVars == <<pc, src, tape_len, tokens, parsed, ir, console, outfile>>
execVars == <<tape, tape0, ip, result, checks, verb, stdin, stdout, stderr, irm, runs,
              twin, iolog, rendered>>
vars == <<pc, src, tape_len, tokens, parsed, ir, console, outfile,
          tape, tape0, ip, result, checks, verb, stdin, stdout, stderr, irm, runs,
          twin, iolog, rendered>>

NoParse == ParseResult(FALSE, <<>>, NoError)
Idle == [state |-> "idle", depth |-> 0, text |-> <<>>]

\* the first of the two runs that are compared, started on input `in`
FirstRun(in) == [run |-> 1, stdin0 |-> in, obs |-> None]

ExecIdle ==
    /\ tape = Tape(<<>>, 0) /\ tape0 = tape /\ ip = 0 /\ result = Running /\ checks = 0
    /\ verb = 0 /\ stdin = <<>> /\ stdout = <<>> /\ stderr = <<>>
    /\ irm = NoMachine /\ runs = 0 /\ rendered = Idle
    /\ twin = FirstRun(<<>>) /\ iolog = <<>>

(* ------------------------------ main.rs -------------------------------- *)
\* let mut tape_len = 30_000
DefaultTapeLen == 30000

\* main after the file was read into `raw`
Init ==
    /\ pc = "main"
    /\ src \in Sources
    /\ tape_len \in {1, DefaultTapeLen}
    /\ tokens = <<>> /\ parsed = NoParse /\ ir = NoIr
    /\ console = <<>> /\ outfile = <<>>
    /\ ExecIdle

\* let ts = token::tokenize(&raw)
Tokenize ==
    /\ pc = "main"
    /\ \E stripBareCR \in BOOLEAN : tokens' = tokenize(src, stripBareCR)
    /\ pc' = "tokenized"
    /\ UNCHANGED <<src, tape_len, parsed, ir, console, outfile>>
    /\ UNCHANGED execVars

\* match ast::AST::from_tokens(&ts)
FromTokens ==
    /\ pc = "tokenized"
    /\ parsed' = from_tokens(tokens)
    /\ pc' = "parsed"
    /\ UNCHANGED <<src, tape_len, tokens, ir, console, outfile>>
    /\ UNCHANGED execVars

\* Err(e) => println!("Parse failed: {}", e); return
ParseFailed ==
    /\ pc = "parsed" /\ ~parsed.ok
    /\ console' = Append(console, <<"Parse failed: ">> \o SyntaxDisplay(parsed.err))
    /\ pc' = "exit"
    /\ UNCHANGED <<src, tape_len, tokens, parsed, ir, outfile>>
    /\ UNCHANGED execVars

\* a driver whose Err arm prints and does not return
IrCreate_Unchecked ==
    /\ pc = "parsed"
    /\ ir' = create(tape_len)
    /\ pc' = "created"
    /\ UNCHANGED <<src, tape_len, tokens, parsed, console, outfile>>
    /\ UNCHANGED execVars

\* IrBuilder::create(&context, tape_len)
IrCreate ==
    /\ pc = "parsed" /\ parsed.ok
    /\ ir' = create(tape_len)
    /\ pc' = "created"
    /\ UNCHANGED <<src, tape_len, tokens, parsed, console, outfile>>
    /\ UNCHANGED execVars

\* irbuilder.build_from_ast(&ops)
BuildFromAst ==
    /\ pc = "created"
    /\ ir' = build_from_ast(ir, parsed.ast)
    /\ pc' = "built"
    /\ UNCHANGED <<src, tape_len, tokens, parsed, console, outfile>>
    /\ UNCHANGED execVars

\* module.set_name(&fname); module.print_to_file(LLVM_OUTPUT)
PrintToFile ==
    /\ pc = "built"
    /\ ir' = [ir EXCEPT !.name = "FILE"]
    /\ \E written \in BOOLEAN :
          IF written
          THEN outfile' = <<ir'>> /\ console' = console
          ELSE outfile' = outfile
               /\ console' = Append(console, <<"Failed to generate LLVM IR: ">>)
    /\ pc' = "exit"
    /\ UNCHANGED <<src, tape_len, tokens, parsed>>
    /\ UNCHANGED execVars

Next == Tokenize \/ FromTokens \/ ParseFailed \/ IrCreate \/ BuildFromAst \/ PrintToFile

Spec == Init /\ [][Next]_vars

(* ---------------- exec.rs: running a tree, as the tests do ------------- *)
InstrChars == {"[", "]", ">", "<", "+", "-", ",", "."}

\* the program of test::loop_
LoopProgram == <<"[", ">", "+", "+", "<", "-", "]">>

\* source texts AST::from_tokens accepts (the tests unwrap the result)
Programs ==
    {s \in StringsUpTo(InstrChars, MaxProgLen) : from_tokens(tokenize(s, FALSE)).ok}

\* tapes the tests prepare: Tape::with_size, then at most one cell and the
\* pointer set by hand
HarnessTapes(n) ==
    LET zero == with_size(n)
        cellsSet == {zero.cells}
                    \cup {[zero.cells EXCEPT ![i] = v] : i \in 1..n, v \in {1, 255}}
    IN  {Tape(c, p) : c \in cellsSet, p \in 0..(n - 1)}

\* what uninitialised stack memory may hold
GarbageVals == {0, 255}

Stdins == {<<>>, <<65>>}

\* the next top-level node of exec_ops' for loop
Cur == parsed.ast[ip]

\* the interpreter is running (a test runs the lowered module first, then
\* the interpreter on the same tree; the two share nothing)
Interpreting == pc = "exec" /\ result.state = "running" /\ irm.status # "ready"

AtOp(k) ==
    /\ Interpreting
    /\ ip <= Len(parsed.ast) /\ Cur.kind = k

\* the outcome of one interpreter function: the tape it leaves, its Result
Outcome(t, r) == [tape |-> t, res |-> r]

\* trace line of the verbose interpreter
Trace(what, p, cell, val) == [what |-> what, pos |-> p, cell |-> cell, val |-> val]

\* a MoveRight that moves the pointer before it tests the bound
inc_tape_MovesFirst(op, t) ==
    LET moved == [t EXCEPT !.pos = @ + 1]
    IN  IF moved.pos >= Len(t.cells)
        THEN Outcome(moved, Err(RuntimeError("OffTapeEnd", Len(t.cells), op.pos)))
        ELSE Outcome(moved, Ok)

\* MoveRight of the interpreter
inc_tape(op, t) ==
    IF t.pos + 1 >= Len(t.cells)
    THEN Outcome(t, Err(RuntimeError("OffTapeEnd", Len(t.cells), op.pos)))
    ELSE Outcome([t EXCEPT !.pos = @ + 1], Ok)

\* MoveLeft of the interpreter
dec_tape(op, t) ==
    IF t.pos = 0
    THEN Outcome(t, Err(RuntimeError("OffTapeStart", 0, op.pos)))
    ELSE Outcome([t EXCEPT !.pos = @ - 1], Ok)

\* Increment / Decrement of the interpreter: 8-bit modular arithmetic
inc_val(op, t) == Outcome(SetCell(t, (Cell(t) + 1) % 256), Ok)
dec_val(op, t) == Outcome(SetCell(t, (Cell(t) - 1) % 256), Ok)

\* what io::stdin().read(&mut buf) with a one-byte buffer can return
IoOk(n, byte) == [tag |-> "ok", n |-> n, byte |-> byte]
IoErr == [tag |-> "err", n |-> 0, byte |-> 0]
ReadOutcomes(in) == {IF in = <<>> THEN IoOk(0, 0) ELSE IoOk(1, Head(in)), IoErr}

\* a read that zeroes the cell at end-of-stream
read_ZeroAtEof(op, t, got) ==
    IF got.tag = "ok" THEN Outcome(SetCell(t, got.byte), Ok)
    ELSE Outcome(t, Err(RuntimeError("IOError", 0, op.pos)))

\* fn read(op: &ASTNode, tape: &mut Tape, _verb: u8) -> Result
read(op, t, got) ==
    IF got.tag = "ok" /\ got.n = 0 THEN Outcome(t, Ok)
    ELSE IF got.tag = "ok" THEN Outcome(SetCell(t, got.byte), Ok)
    ELSE Outcome(t, Err(RuntimeError("IOError", 0, op.pos)))

\* the comparison run meets the environment of the first run: its I/O calls
\* return what the calls of the first run returned
Replayed(got, outcomes) ==
    (twin.run = 2 /\ iolog # <<>> /\ Head(iolog) \in outcomes) => got = Head(iolog)
Logged(got) ==
    IF twin.run = 1 THEN Append(iolog, got)
    ELSE IF iolog # <<>> THEN Tail(iolog) ELSE iolog

\* what io::stdout().write(&buf) with a one-byte buffer can return
WriteOutcomes == {IoOk(1, 0), IoOk(0, 0), IoErr}

\* write with the arms `Ok(1)` and `Ok(_n)` merged into one `Ok(_)` arm
write_ShortOk(op, t, got) ==
    IF got.tag = "ok" THEN Outcome(t, Ok)
    ELSE Outcome(t, Err(RuntimeError("IOError", 0, op.pos)))

\* fn write(op: &ASTNode, tape: &Tape, _verb: u8) -> Result
write(op, t, got) ==
    IF got.tag = "ok" /\ got.n = 1 THEN Outcome(t, Ok)
    ELSE Outcome(t, Err(RuntimeError("IOError", 0, op.pos)))

\* exec_ops' `?`: an Err ends the run, Ok moves on to the next node
Continue(r) ==
    /\ tape' = r.tape
    /\ IF r.res.state = "ok"
       THEN ip' = ip + 1 /\ result' = result
       ELSE ip' = ip /\ result' = r.res

\* a test: Tape prepared, tree parsed, module lowered; nothing has run
InitExec ==
    /\ pc = "exec"
    /\ \/ /\ src \in Programs
          /\ tape_len \in 1..MaxTapeLen
          /\ tape \in HarnessTapes(tape_len)
       \/ /\ src = LoopProgram
          /\ tape_len = 2
          /\ \E n \in 0..255 : tape = Tape(<<n, 0>>, 0)
    /\ tape0 = tape
    /\ tokens = tokenize(src, FALSE)
    /\ parsed = from_tokens(tokens)
    /\ ir = build_from_ast(create(tape_len), parsed.ast)
    /\ console = <<>> /\ outfile = <<>>
    /\ ip = 1 /\ result = Running /\ checks = 0
    /\ verb \in {0, 1}
    /\ stdin \in Stdins
    /\ stdout = <<>> /\ stderr = <<>>
    /\ irm = Machine(ir)
    /\ runs = 1
    /\ twin = FirstRun(stdin) /\ iolog = <<>>
    /\ rendered = Idle

ExecIncTape ==
    /\ AtOp("IncTape")
    /\ Continue(inc_tape(Cur, tape))
    /\ UNCHANGED <<tape0, twin, iolog, runs, checks, verb, stdin, stdout, stderr, irm, rendered>>
    /\ UNCHANGED pipeVars

ExecDecTape ==
    /\ AtOp("DecTape")
    /\ Continue(dec_tape(Cur, tape))
    /\ UNCHANGED <<tape0, twin, iolog, runs, checks, verb, stdin, stdout, stderr, irm, rendered>>
    /\ UNCHANGED pipeVars

ExecIncVal ==
    /\ AtOp("IncVal")
    /\ Continue(inc_val(Cur, tape))
    /\ stderr' = IF verb > 0
                 THEN Append(stderr, Trace("inc", Cur.pos, tape.pos, Cell(tape')))
                 ELSE stderr
    /\ UNCHANGED <<tape0, twin, iolog, runs, checks, verb, stdin, stdout, irm, rendered>>
    /\ UNCHANGED pipeVars

ExecDecVal ==
    /\ AtOp("DecVal")
    /\ Continue(dec_val(Cur, tape))
    /\ stderr' = IF verb > 0
                 THEN Append(stderr, Trace("dec", Cur.pos, tape.pos, Cell(tape')))
                 ELSE stderr
    /\ UNCHANGED <<tape0, twin, iolog, runs, checks, verb, stdin, stdout, irm, rendered>>
    /\ UNCHANGED pipeVars

\* read: one byte of standard input is consumed when there is one
ExecRead ==
    /\ AtOp("Read")
    /\ \E got \in ReadOutcomes(stdin) :
          /\ Replayed(got, ReadOutcomes(stdin))
          /\ iolog' = Logged(got)
          /\ Continue(read(Cur, tape, got))
          /\ stdin' = IF got.tag = "ok" /\ got.n = 1 THEN Tail(stdin) ELSE stdin
    /\ UNCHANGED <<tape0, twin, runs, checks, verb, stdout, stderr, irm, rendered>>
    /\ UNCHANGED pipeVars

\* write: the byte reaches standard output when write returns Ok(1)
ExecWrite ==
    /\ AtOp("Write")
    /\ \E got \in WriteOutcomes :
          /\ Replayed(got, WriteOutcomes)
          /\ iolog' = Logged(got)
          /\ Continue(write(Cur, tape, got))
          /\ stdout' = IF got.tag = "ok" /\ got.n = 1
                       THEN Append(stdout, Cell(tape)) ELSE stdout
    /\ UNCHANGED <<tape0, twin, runs, checks, verb, stdin, stderr, irm, rendered>>
    /\ UNCHANGED pipeVars

\* the loop condition tested on the first cell of the tape
loop_cond_FirstCell(t) == t.cells[1] # 0

\* exec_loop's condition, `tape.cells[tape.pos] != 0`
loop_cond(t) == Cell(t) # 0

\* exec_loop, one turn of `while tape.cells[tape.pos] != 0`: the trace line;
\* the call that would run the body is commented out
ExecLoopCheck ==
    /\ AtOp("Loop")
    /\ loop_cond(tape)
    /\ checks < MaxChecks
    /\ checks' = checks + 1
    /\ stderr' = IF verb > 0
                 THEN Append(stderr, Trace("loop check", Cur.pos, tape.pos, Cell(tape)))
                 ELSE stderr
    /\ UNCHANGED <<tape, tape0, twin, iolog, runs, ip, result, verb, stdin, stdout, irm, rendered>>
    /\ UNCHANGED pipeVars

\* an exec_loop whose "loop end" line is printed with println!
ExecLoopEnd_TraceOnStdout ==
    /\ AtOp("Loop")
    /\ ~loop_cond(tape)
    /\ Continue(Outcome(tape, Ok))
    /\ stdout' = IF verb > 0 THEN Append(stdout, 91) ELSE stdout
    /\ UNCHANGED <<tape0, twin, iolog, runs, checks, verb, stdin, stderr, irm, rendered>>
    /\ UNCHANGED pipeVars

\* exec_loop, the condition found false: the trace line and Ok(())
ExecLoopEnd ==
    /\ AtOp("Loop")
    /\ ~loop_cond(tape)
    /\ Continue(Outcome(tape, Ok))
    /\ stderr' = IF verb > 0
                 THEN Append(stderr, Trace("loop end", Cur.pos, tape.pos, 0))
                 ELSE stderr
    /\ UNCHANGED <<tape0, twin, iolog, runs, checks, verb, stdin, stdout, irm, rendered>>
    /\ UNCHANGED pipeVars

\* test::add and test::sub: the test runs its one-instruction program again
\* on the tape the run before left (exec_str_with_tape on the same Tape)
ExecAgain ==
    /\ pc = "exec" /\ result = Ok
    /\ src \in {<<"+">>, <<"-">>} /\ tape0 = with_size(1)
    /\ runs < MaxRuns
    /\ runs' = runs + 1
    /\ ip' = 1 /\ result' = Running
    /\ UNCHANGED <<tape, tape0, twin, iolog, checks, verb, stdin, stdout, stderr, irm, rendered>>
    /\ UNCHANGED pipeVars

\* the run is over: exec_ops has returned, or exec_loop spins (the model
\* follows MaxChecks condition checks of a run)
RunOver ==
    /\ pc = "exec" /\ irm.status # "ready"
    /\ \/ result.state # "running"
       \/ AtOp("Loop") /\ loop_cond(tape) /\ checks = MaxChecks

\* what a caller of the interpreter can see of a run
Observed ==
    [result |-> result, tape |-> tape, stdout |-> stdout, stdin |-> stdin,
     ip |-> ip, checks |-> checks]

\* the same tree is run a second time on the same tape and input with the
\* other verbosity (exec_ops(&ops.0, tape, verb))
ExecTwin ==
    /\ RunOver /\ twin.run = 1 /\ runs = 1 /\ rendered.state = "idle"
    /\ twin' = [run |-> 2, stdin0 |-> twin.stdin0, obs |-> Some(Observed)]
    /\ verb' = 1 - verb
    /\ tape' = tape0 /\ ip' = 1 /\ result' = Running /\ checks' = 0
    /\ stdin' = twin.stdin0 /\ stdout' = <<>> /\ stderr' = <<>>
    /\ UNCHANGED <<tape0, runs, iolog, irm, rendered>>
    /\ UNCHANGED pipeVars

\* exec_ops after the last node: Ok(())
ExecReturn ==
    /\ Interpreting
    /\ ip = Len(parsed.ast) + 1
    /\ result' = Ok
    /\ UNCHANGED <<tape, tape0, twin, iolog, runs, ip, checks, verb, stdin, stdout, stderr,
                 irm, rendered>>
    /\ UNCHANGED pipeVars

\* the lowered main runs its current basic block
IrRunBlock ==
    /\ pc = "exec" /\ irm.status = "ready"
    /\ \E g \in [1..tape_len -> GarbageVals], a \in GarbageVals :
          irm' = RunInstrs(irm, ir.blocks[irm.block].instrs, Fresh(g, a))
    /\ UNCHANGED <<tape, tape0, twin, iolog, runs, ip, result, checks, verb, stdin, stdout,
                 stderr, rendered>>
    /\ UNCHANGED pipeVars

\* the caller formats the RuntimeError with "{}": Display::fmt is entered
RenderError ==
    /\ pc = "exec" /\ result.state = "err" /\ rendered.state = "idle"
    /\ rendered' = [state |-> "fmt", depth |-> 1, text |-> <<>>]
    /\ UNCHANGED <<tape, tape0, twin, iolog, runs, ip, result, checks, verb, stdin, stdout,
                 stderr, irm>>
    /\ UNCHANGED pipeVars

\* impl fmt::Display for RuntimeError: write!(f, "{} ({}:{})", self, ..)
\* formats its first argument, self, with Display::fmt again, before any
\* text is written
FmtRecurse ==
    /\ rendered.state = "fmt" /\ rendered.depth < MaxFmtDepth
    /\ rendered' = [rendered EXCEPT !.depth = @ + 1]
    /\ UNCHANGED <<tape, tape0, twin, iolog, runs, ip, result, checks, verb, stdin, stdout,
                 stderr, irm>>
    /\ UNCHANGED pipeVars

\* the stack is exhausted: the process is killed
FmtStackOverflow ==
    /\ rendered.state = "fmt" /\ rendered.depth = MaxFmtDepth
    /\ rendered' = [rendered EXCEPT !.state = "aborted"]
    /\ UNCHANGED <<tape, tape0, twin, iolog, runs, ip, result, checks, verb, stdin, stdout,
                 stderr, irm>>
    /\ UNCHANGED pipeVars

NextExec ==
    \/ ExecIncTape \/ ExecDecTape \/ ExecIncVal \/ ExecDecVal
    \/ ExecRead \/ ExecWrite \/ ExecLoopCheck \/ ExecLoopEnd \/ ExecReturn
    \/ ExecAgain \/ ExecTwin \/ IrRunBlock \/ RenderError \/ FmtRecurse \/ FmtStackOverflow

SpecExec == InitExec /\ [][NextExec]_vars

\* every enabled step of the run is eventually taken
FairSpecExec == SpecExec /\ WF_vars(NextExec)

(* ------------------- reference notions for the properties -------------- *)
\* the parser has returned
ParsedDone == pc \notin {"main", "tokenized"}

Count(ts, k, i) == Cardinality({j \in 1..i : ts[j].kind = k})

\* bracket nesting depth after the first i tokens
Depth(ts, i) == Count(ts, "StartLoop", i) - Count(ts, "EndLoop", i)

HasUnopened(ts) == \E i \in 1..Len(ts) : Depth(ts, i) < 0
FirstUnopened(ts) ==
    CHOOSE i \in 1..Len(ts) : Depth(ts, i) < 0 /\ \A j \in 1..(i - 1) : Depth(ts, j) >= 0
Balanced(ts) == ~HasUnopened(ts) /\ Depth(ts, Len(ts)) = 0
EndsOpen(ts) == ~HasUnopened(ts) /\ Depth(ts, Len(ts)) > 0

\* opening brackets that are never closed
Unterminated(ts) ==
    {i \in 1..Len(ts) : /\ ts[i].kind = "StartLoop"
                        /\ \A j \in i..Len(ts) : Depth(ts, j) >= Depth(ts, i)}
Outermost(ts) == CHOOSE i \in Unterminated(ts) : \A j \in Unterminated(ts) : i <= j
Innermost(ts) == CHOOSE i \in Unterminated(ts) : \A j \in Unterminated(ts) : i >= j

\* the scalar nodes of a tree, depth first, left to right
RECURSIVE Flatten(_)
Flatten(ops) ==
    IF ops = <<>> THEN <<>>
    ELSE LET n == Head(ops)
         IN  (IF n.kind = "Loop" THEN Flatten(n.ops.v)
              ELSE <<[kind |-> n.kind, pos |-> n.pos]>>) \o Flatten(Tail(ops))

RECURSIVE CountLoops(_)
CountLoops(ops) ==
    IF ops = <<>> THEN 0
    ELSE (IF Head(ops).kind = "Loop" THEN 1 + CountLoops(Head(ops).ops.v) ELSE 0)
         + CountLoops(Tail(ops))

\* indices of the characters of s that are not part of a line terminator
KeptIdx(s, stripBareCR) ==
    SelectSeq([i \in 1..Len(s) |-> i],
              LAMBDA i : /\ s[i] # NL
                         /\ ~(s[i] = CR /\ i < Len(s) /\ s[i + 1] = NL)
                         /\ ~(stripBareCR /\ s[i] = CR /\ i = Len(s)))

KeptKinds(s, stripBareCR) ==
    LET K == KeptIdx(s, stripBareCR) IN [j \in 1..Len(K) |-> TokenKindFrom(s[K[j]])]

\* line and column of the character at index i of s
LineOf(s, i) == 1 + Cardinality({j \in 1..(i - 1) : s[j] = NL})
ColumnOf(s, i) ==
    LET before == {j \in 1..(i - 1) : s[j] = NL}
    IN  IF before = {} THEN i ELSE i - (CHOOSE j \in before : \A k \in before : k <= j)

PosLess(p, q) == p.line < q.line \/ (p.line = q.line /\ p.pos < q.pos)

\* how many instructions `op` the graph g holds
InstrCount(g, op) ==
    Cardinality(UNION {{<<b, i>> : i \in {j \in 1..Len(g.blocks[b].instrs) :
                                              g.blocks[b].instrs[j].op = op}} :
                       b \in 1..Len(g.blocks)})

(* ------------------------------ properties ----------------------------- *)
\* C3 (as claimed): when the tokens end inside open loop bodies, from_tokens
\* fails with UnclosedLoop at the outermost unterminated opening bracket.
C3_OutermostReported ==
    (ParsedDone /\ EndsOpen(tokens)) =>
        parsed = ParseResult(FALSE, <<>>,
                    SyntaxError(tokens[Outermost(tokens)].pos, "UnclosedLoop"))

\* C3 (amended): when the tokens end inside open loop bodies, from_tokens
\* fails with UnclosedLoop at the innermost (last opened) unterminated
\* opening bracket.
C3_InnermostReported ==
    (ParsedDone /\ EndsOpen(tokens)) =>
        parsed = ParseResult(FALSE, <<>>,
                    SyntaxError(tokens[Innermost(tokens)].pos, "UnclosedLoop"))

C3_Witness ==
    /\ ParsedDone /\ EndsOpen(tokens)
    /\ Outermost(tokens) # Innermost(tokens)
    /\ parsed.err.kind = "UnclosedLoop"

\* C4: a LoopEnd met at nesting depth 0 makes from_tokens fail with
\* UnopenedLoop at that token's position, whatever precedes and follows it.
C4_UnopenedAtToken ==
    (ParsedDone /\ HasUnopened(tokens)) =>
        parsed = ParseResult(FALSE, <<>>,
                    SyntaxError(tokens[FirstUnopened(tokens)].pos, "UnopenedLoop"))

C4_Witness ==
    /\ ParsedDone /\ HasUnopened(tokens)
    /\ Count(tokens, "StartLoop", FirstUnopened(tokens)) > 0
    /\ FirstUnopened(tokens) < Len(tokens)
    /\ parsed.err.kind = "UnopenedLoop"

\* C5: on balanced brackets from_tokens succeeds and the scalar nodes of the
\* tree, flattened, are the tokens without brackets and comments, each with
\* its token's kind and position.
C5_FlattenIsScalars ==
    (ParsedDone /\ Balanced(tokens)) =>
        /\ parsed.ok
        /\ Flatten(parsed.ast) =
             SelectSeq(tokens, LAMBDA t : t.kind \in ScalarKinds)

C5_Witness ==
    /\ ParsedDone /\ Balanced(tokens) /\ parsed.ok
    /\ \E i \in 1..Len(parsed.ast) :
          parsed.ast[i].kind = "Loop" /\ Len(Flatten(parsed.ast[i].ops.v)) > 0
    /\ Len(Flatten(parsed.ast)) > 1

\* C6 (as claimed): every Loop node lowers to three new blocks: a header
\* ending in a conditional branch, and two unconditional jumps to the header.
C6_ThreeBlocksPerLoop ==
    (pc = "built") =>
        /\ Len(ir.blocks) = 1 + 3 * CountLoops(parsed.ast)
        /\ InstrCount(ir, "condbr") = CountLoops(parsed.ast)
        /\ InstrCount(ir, "br") = 2 * CountLoops(parsed.ast)

\* C7 (as claimed): tokenize yields one token per input character, newline
\* characters included.
C7_OneTokenPerChar ==
    (pc # "main") => Len(tokens) = Len(src)

\* C7 (amended): tokenize yields one token per input character that is not
\* part of a line terminator, in source order.
C7_OneTokenPerLineChar ==
    (pc # "main") =>
        \E stripBareCR \in BOOLEAN :
            /\ Len(tokens) = Len(KeptIdx(src, stripBareCR))
            /\ [j \in 1..Len(tokens) |-> tokens[j].kind] = KeptKinds(src, stripBareCR)

C7_Witness ==
    /\ pc # "main"
    /\ \E i \in 1..Len(src) : src[i] = NL
    /\ Len(tokens) > 1 /\ Len(tokens) < Len(src)

\* C8: the token of the k-th character of the n-th line has line n and
\* column k, both counted from 1; positions increase strictly along the
\* token sequence.
C8_Positions ==
    (pc # "main") =>
        LET K == KeptIdx(src, FALSE)
        IN  /\ Len(tokens) <= Len(K)
            /\ \A j \in 1..Len(tokens) :
                  /\ tokens[j].pos = InputPosition(LineOf(src, K[j]), ColumnOf(src, K[j]))
                  /\ tokens[j].pos.line >= 1 /\ tokens[j].pos.pos >= 1
            /\ \A j \in 1..(Len(tokens) - 1) : PosLess(tokens[j].pos, tokens[j + 1].pos)

C8_Witness ==
    /\ pc # "main"
    /\ \E j \in 1..Len(tokens) : tokens[j].pos.line = 2
    /\ \E j \in 1..Len(tokens) : tokens[j].pos.pos = 2

\* C1 (as claimed): a tree run by the interpreter and its lowered module run
\* on the same fresh tape and input end with the same output bytes and the
\* same tape contents (here even when the module's uninitialised tape array
\* holds zeros, as the interpreter's fresh tape does).
C1_BackendEquivalence ==
    (/\ pc = "exec" /\ tape0 = with_size(tape_len)
     /\ result.state = "ok" /\ irm.status = "done"
     /\ \A i \in 1..Len(irm.mem0) : irm.mem0[i] \in {Uninit, 0})
    => (irm.out = stdout /\ ZeroFilled(irm) = tape.cells)

\* C2 (as claimed): "[>++<-]" on the tape <<n, 0>> runs its body once per
\* condition check that finds cell 0 nonzero, and ends Ok with cell 0 = 0,
\* cell 1 = 2n mod 256 and the pointer at 0.
C2_LoopDoubles ==
    (pc = "exec" /\ src = LoopProgram) =>
        LET n == tape0.cells[1]
        IN  /\ result.state # "err"
            /\ result.state = "ok" => tape = Tape(<<0, (2 * n) % 256>>, 0)
            /\ (result.state = "running" /\ ip = 1) =>
                  tape = Tape(<<(n - checks) % 256, (2 * checks) % 256>>, 0)

\* C9 (as claimed): Display of a RuntimeError ends, with the text
\* "<message> (<line>:<column>)".
C9_DisplayRenders ==
    /\ rendered.state # "aborted"
    /\ rendered.state = "done" =>
          rendered.text = <<RuntimeDescription(result.err), " (",
                            result.err.pos.line, ":", result.err.pos.pos, ")">>

\* C10: Read stores one byte of standard input in the cell under the
\* pointer, consuming it; at end-of-stream it is Ok and changes nothing; an
\* I/O failure is IOError at the instruction's position; the pointer and all
\* other cells never change.
C10_Read ==
    [][(AtOp("Read") /\ irm' = irm) =>
         /\ tape'.pos = tape.pos
         /\ \A i \in 1..Len(tape.cells) : i # tape.pos + 1 => tape'.cells[i] = tape.cells[i]
         /\ Len(tape'.cells) = Len(tape.cells)
         /\ \/ /\ stdin # <<>>
               /\ Cell(tape') = Head(stdin) /\ stdin' = Tail(stdin)
               /\ result' = Running /\ ip' = ip + 1
            \/ /\ stdin = <<>>
               /\ tape' = tape /\ stdin' = stdin
               /\ result' = Running /\ ip' = ip + 1
            \/ /\ result' = Err(RuntimeError("IOError", 0, Cur.pos))
               /\ tape' = tape /\ stdin' = stdin /\ ip' = ip
      ]_vars

\* a Read at end-of-stream has returned Ok over a nonzero cell, and a Read
\* has stored the waiting byte
C10_Witness ==
    /\ pc = "exec" /\ result.state = "running" /\ ip = 3
    /\ parsed.ast[1].kind = "Read" /\ parsed.ast[2].kind = "Read"
    /\ tape0.cells[tape0.pos + 1] = 255
    /\ stdin = <<>> /\ Cell(tape) = 65

\* C11: Write sends exactly one byte, the cell under the pointer, to standard
\* output and is Ok only when one byte was written; a short write or an I/O
\* failure is IOError at the instruction's position with nothing written;
\* the tape and the pointer never change.
C11_Write ==
    [][(AtOp("Write") /\ irm' = irm) =>
         /\ tape' = tape
         /\ stdin' = stdin
         /\ \/ /\ stdout' = Append(stdout, Cell(tape))
               /\ result' = Running /\ ip' = ip + 1
            \/ /\ stdout' = stdout
               /\ result' = Err(RuntimeError("IOError", 0, Cur.pos))
               /\ ip' = ip
      ]_vars

\* a first Write has sent the cell's byte 255, the second one failed at its
\* own position, and the tape is as it was
C11_Witness ==
    /\ pc = "exec" /\ ip = 2 /\ Len(parsed.ast) = 2
    /\ parsed.ast[1].kind = "Write" /\ parsed.ast[2].kind = "Write"
    /\ stdout = <<255>>
    /\ result = Err(RuntimeError("IOError", 0, parsed.ast[2].pos))
    /\ tape = tape0

\* C12: a Loop node met while the cell under the pointer is 0 returns Ok with
\* every cell and the pointer unchanged, runs nothing of its body (the loop
\* condition is not tested a second time), reads no input and writes no
\* output.
C12_ZeroIterationLoop ==
    [][(AtOp("Loop") /\ Cell(tape) = 0 /\ irm' = irm) =>
         /\ tape' = tape
         /\ stdin' = stdin /\ stdout' = stdout
         /\ checks' = checks
         /\ result' = Running /\ ip' = ip + 1
      ]_vars

\* the loop "[>++<-]", which has a body, was met on a zero cell and the run
\* ended Ok on the tape it started from, with nothing read or written
C12_Witness ==
    /\ pc = "exec" /\ src = LoopProgram
    /\ Cell(tape0) = 0
    /\ result = Ok /\ ip = 2 /\ checks = 0
    /\ tape = tape0 /\ stdout = <<>>

\* C13 (as claimed): 255 applications of Increment to a zero cell return it
\* to 0.
C13_WrapsAfter255 ==
    (pc = "exec" /\ src = <<"+">> /\ tape0 = with_size(1) /\ result = Ok /\ runs = 255) =>
        Cell(tape) = 0

\* C13 (amended): a cell counts modulo 256. After k applications of
\* Increment to a zero cell the cell holds k mod 256: 255 after the 255th,
\* 0 again after the 256th. The lowered Increment, too, turns a cell
\* holding v into (v + 1) mod 256, 255 into 0.
C13_WrapsAfter256 ==
    (pc = "exec" /\ src = <<"+">>) =>
        /\ (tape0 = with_size(1) /\ result = Ok) => Cell(tape) = runs % 256
        /\ irm.status = "done" => irm.tape[1] = (irm.mem0[1] + 1) % 256

\* the 256th Increment of a cell that started at zero has returned it to 0,
\* and the lowered Increment has turned a cell holding 255 into 0
C13_Witness ==
    /\ pc = "exec" /\ src = <<"+">> /\ tape0 = with_size(1)
    /\ result = Ok /\ runs = 256 /\ Cell(tape) = 0
    /\ irm.status = "done" /\ irm.mem0[1] = 255 /\ irm.tape[1] = 0

\* C14 (as claimed): at the start of every execution the tape has the
\* requested number of cells, all zero, and the pointer is 0: for the
\* interpreter's Tape::with_size, and for the tape array and the pointer
\* local that the lowered entry block sets up (seen here once the lowered
\* form of the empty program has run, which is the entry block's set-up and
\* the return).
C14_FreshTapes ==
    /\ pc = "exec" =>
          /\ Len(with_size(tape_len).cells) = tape_len
          /\ \A i \in 1..tape_len : with_size(tape_len).cells[i] = 0
          /\ with_size(tape_len).pos = 0
    /\ (pc = "exec" /\ parsed.ast = <<>> /\ irm.status = "done") =>
          /\ Len(irm.tape) = tape_len
          /\ \A i \in 1..tape_len : irm.tape[i] = 0
          /\ irm.active = 0

\* C15: MoveRight at the last valid index returns OffTapeEnd(tape length) and
\* MoveLeft at index 0 returns OffTapeStart, each at the move instruction's
\* position, with pointer and tape unchanged; any other move changes the
\* pointer by exactly one, leaves the cells alone and returns Ok.
C15_Moves ==
    [][/\ (AtOp("IncTape") /\ irm' = irm) =>
            /\ tape'.cells = tape.cells
            /\ IF tape.pos = Len(tape.cells) - 1
               THEN /\ tape' = tape /\ ip' = ip
                    /\ result' = Err(RuntimeError("OffTapeEnd", Len(tape.cells), Cur.pos))
               ELSE /\ tape'.pos = tape.pos + 1
                    /\ result' = Running /\ ip' = ip + 1
       /\ (AtOp("DecTape") /\ irm' = irm) =>
            /\ tape'.cells = tape.cells
            /\ IF tape.pos = 0
               THEN /\ tape' = tape /\ ip' = ip
                    /\ result' = Err(RuntimeError("OffTapeStart", 0, Cur.pos))
               ELSE /\ tape'.pos = tape.pos - 1
                    /\ result' = Running /\ ip' = ip + 1
      ]_vars

\* ">>" on a two-cell tape: the first MoveRight moved the pointer to the last
\* index, the second failed there with OffTapeEnd(2) at its own position
C15_Witness ==
    /\ pc = "exec" /\ Len(parsed.ast) = 2 /\ ip = 2
    /\ parsed.ast[1].kind = "IncTape" /\ parsed.ast[2].kind = "IncTape"
    /\ tape0.pos = 0 /\ tape.pos = 1 /\ tape.cells = tape0.cells
    /\ result = Err(RuntimeError("OffTapeEnd", 2, parsed.ast[2].pos))

\* C16: once AST::from_tokens has returned UnopenedLoop or UnclosedLoop there
\* is no tree, and the driver never creates an IrBuilder, never runs
\* build_from_ast and never writes the output file: it prints and exits.
\* Conversely a builder, a lowered module or an output file exist only after
\* a successful parse.
C16_SyntaxErrorStops ==
    /\ (ParsedDone /\ ~parsed.ok) =>
          /\ parsed.err.kind \in {"UnopenedLoop", "UnclosedLoop"}
          /\ parsed.ast = <<>>
          /\ ir = NoIr /\ outfile = <<>>
          /\ pc \in {"parsed", "exit"}
    /\ (ir # NoIr \/ outfile # <<>> \/ pc \in {"created", "built"}) =>
          ParsedDone /\ parsed.ok

\* the driver has exited on a syntax error: the message is printed, there is
\* no builder and no output file
C16_Witness ==
    /\ pc = "exit" /\ ~parsed.ok
    /\ parsed.err.kind \in {"UnopenedLoop", "UnclosedLoop"}
    /\ Len(console) = 1 /\ ir = NoIr /\ outfile = <<>>

\* C17 (as claimed): running the lowered form of a single Decrement on a cell
\* holding v leaves (v - 1) mod 256 in it, the lowered form of a single
\* Increment leaves (v + 1) mod 256; the pointer local stays 0 and no other
\* cell is written.
C17_LoweredCellArithmetic ==
    (/\ pc = "exec" /\ irm.status = "done"
     /\ Len(parsed.ast) = 1 /\ parsed.ast[1].kind \in {"IncVal", "DecVal"}) =>
        LET v == irm.mem0[1]
        IN  /\ irm.tape[1] = IF parsed.ast[1].kind = "DecVal"
                              THEN (v - 1) % 256 ELSE (v + 1) % 256
            /\ irm.active = 0
            /\ \A i \in 2..Len(irm.tape) : irm.tape[i] = Uninit

\* top-level nodes of kind k in a tree
NodeCount(ast, k) == Cardinality({i \in 1..Len(ast) : ast[i].kind = k})

\* C18 (as claimed): each lowered MoveRight adds one to the pointer local and
\* each lowered MoveLeft subtracts one from it, with no bounds check, so
\* after the lowered form of a program made of moves only the pointer local
\* holds (number of MoveRight) - (number of MoveLeft) in 32-bit arithmetic
\* and the machine has returned; the tape is never touched.
C18_LoweredPointerMoves ==
    (/\ pc = "exec" /\ irm.status # "ready"
     /\ parsed.ast # <<>>
     /\ \A i \in 1..Len(parsed.ast) : parsed.ast[i].kind \in {"IncTape", "DecTape"}) =>
        /\ irm.status = "done"
        /\ irm.active = Sub32(NodeCount(parsed.ast, "IncTape"),
                              NodeCount(parsed.ast, "DecTape"))
        /\ \A i \in 1..Len(irm.tape) : irm.tape[i] = Uninit

\* nodes of kind k anywhere in a tree
ScalarCount(ast, k) ==
    LET f == Flatten(ast) IN Cardinality({i \in 1..Len(f) : f[i].kind = k})

\* C19 (as claimed): the lowered graph holds exactly one call per Read and
\* per Write node of the tree, and the primitive each of them calls (getchar
\* for Read, putchar for Write) is declared in the produced module.
C19_OneCallPerIoNode ==
    (pc = "built") =>
        /\ InstrCount(ir, "call") =
              ScalarCount(parsed.ast, "Read") + ScalarCount(parsed.ast, "Write")
        /\ ScalarCount(parsed.ast, "Read") > 0 => "getchar" \in ir.functions
        /\ ScalarCount(parsed.ast, "Write") > 0 => "putchar" \in ir.functions

\* C20: after IrBuilder::create and build_from_ast the graph has exactly one
\* entry block, every block ends in exactly one terminator with no
\* instruction after it, and a tree of scalar nodes only leaves the entry
\* block as the only block.
C20_BlocksTerminated ==
    (pc = "built") =>
        /\ Cardinality({b \in 1..Len(ir.blocks) : ir.blocks[b].name = "entry"}) = 1
        /\ ir.blocks[1].name = "entry"
        /\ \A b \in 1..Len(ir.blocks) :
              LET is == ir.blocks[b].instrs
              IN  /\ is # <<>>
                  /\ is[Len(is)].op \in Terminators
                  /\ \A j \in 1..(Len(is) - 1) : is[j].op \notin Terminators
        /\ CountLoops(parsed.ast) = 0 => Len(ir.blocks) = 1

\* a tree of two scalar nodes that emit instructions has been lowered: the
\* entry block holds their instructions and ends in the return
C20_Witness ==
    /\ pc = "built" /\ Len(parsed.ast) = 2 /\ CountLoops(parsed.ast) = 0
    /\ parsed.ast[1].kind = "IncVal" /\ parsed.ast[2].kind = "IncTape"
    /\ Len(ir.blocks) = 1
    /\ Len(ir.blocks[1].instrs) = 12
    /\ ir.blocks[1].instrs[12].op = "ret"

\* C21: tracing is a transparent side channel. When the same tree has been
\* run on the same tape and input with verbosity 0 and with verbosity 1, its
\* I/O calls returning the same both times, the two runs show the same
\* result, the same final tape and pointer, the same standard output, the
\* same input left and the same place of ending or spinning; and a run with
\* verbosity 0 prints no trace line.
C21_TraceTransparent ==
    /\ (twin.run = 2 /\ runs = 1 /\ RunOver) => Observed = twin.obs.v
    /\ (pc = "exec" /\ verb = 0) => stderr = <<>>

\* a Loop node met on a nonzero cell was run without tracing and then with
\* tracing: the second run spins as the first did, has printed a trace line
\* per condition check, and shows what the first run showed
C21_Witness ==
    /\ twin.run = 2 /\ runs = 1 /\ RunOver /\ verb = 1
    /\ AtOp("Loop") /\ Cell(tape0) # 0
    /\ result = Running /\ checks = MaxChecks /\ Len(stderr) = MaxChecks
    /\ Observed = twin.obs.v

\* C22: from_tokens returns Ok exactly when the brackets are balanced.
\* Otherwise it returns one error and no tree: UnopenedLoop at the first
\* LoopEnd that closes more loops than were opened, whatever follows it;
\* UnclosedLoop only when there is no such LoopEnd and the tokens end inside
\* a loop. The token vector still is what tokenize returned.
C22_OkIffBalanced ==
    ParsedDone =>
        /\ parsed.ok <=> Balanced(tokens)
        /\ ~parsed.ok => parsed.ast = <<>>
        /\ HasUnopened(tokens) =>
              /\ ~parsed.ok
              /\ parsed.err = SyntaxError(tokens[FirstUnopened(tokens)].pos, "UnopenedLoop")
        /\ (~parsed.ok /\ parsed.err.kind = "UnclosedLoop") <=> EndsOpen(tokens)
        /\ \E stripBareCR \in BOOLEAN : tokens = tokenize(src, stripBareCR)

\* a LoopEnd outside every loop is followed by a LoopStart that is never
\* closed: the error is UnopenedLoop at the LoopEnd
C22_Witness ==
    /\ ParsedDone /\ HasUnopened(tokens)
    /\ \E i \in Unterminated(tokens) : i > FirstUnopened(tokens)
    /\ ~parsed.ok
    /\ parsed.err = SyntaxError(tokens[FirstUnopened(tokens)].pos, "UnopenedLoop")

====
